---- MODULE Spec2Model ----
(***************************************************************************)
(* Health Survey API (backend/main.py): a FastAPI service that validates   *)
(* survey submissions against data/employees.csv and keeps them in         *)
(* data/survey_responses.csv.                                              *)
(*                                                                         *)
(* A worker is one server process (one event loop).  Every handler is an   *)
(* `async def` without an await, so a worker runs a handler to completion  *)
(* before it takes the next request; workers share the data directory and  *)
(* interleave between their file operations.  Text is modelled as a        *)
(* sequence of one-character strings, a CSV file as the sequence of its    *)
(* data rows (the header line is implied).                                  *)
(***************************************************************************)
EXTENDS Integers, Sequences, FiniteSets, TLC

\* ------------------------------------------------------------ bounds
NumWorkers == 2
MaxAccepted == 2
MaxIdLen == 9
MaxStatRows == 21

\* ------------------------------------------------- program constants
EmployeeNumberWidth == 8

Workers == 1..NumWorkers

VARIABLES
    started,        \* the startup event has run
    employeesCsv,   \* data/employees.csv: [exists, rows]
    surveyCsv,      \* data/survey_responses.csv: [exists, rows]
    pc,             \* per worker: the handler it runs and where it is in it
    survey,         \* per worker: the SurveySubmission body of the request
    survey_data,    \* per worker: the row built by submit_survey
    file_exists,    \* per worker: submit_survey's os.path.exists(SURVEY_DATA_CSV)
    existing_df,    \* per worker: what submit_survey read from the survey file
    response,       \* the last response sent to a client
    accepted,       \* rows of the submissions answered with success, in order
    emp_in,         \* normalization run: submitted employee number
    cell_in,        \* normalization run: EmployeeNumber cell of the roster file
    norm_pc,        \* normalization run: position
    norm_out,       \* normalization run: results
    df_in,          \* statistics run: the height columns of the survey table
    stats_pc,       \* statistics run: position
    stats_out       \* statistics run: the answer of /survey-stats

serverVars == <<started, employeesCsv, surveyCsv, pc, survey, survey_data,
                file_exists, existing_df, response, accepted>>
normVars == <<emp_in, cell_in, norm_pc, norm_out>>
statVars == <<df_in, stats_pc, stats_out>>
vars == <<serverVars, normVars, statVars>>

\* ------------------------------------------------------------- text
Zeros(n) == [i \in 1..n |-> "0"]

Digit(d) == CASE d = 0 -> "0" [] d = 1 -> "1" [] d = 2 -> "2" [] d = 3 -> "3"
              [] d = 4 -> "4" [] d = 5 -> "5" [] d = 6 -> "6" [] d = 7 -> "7"
              [] d = 8 -> "8" [] d = 9 -> "9"

RECURSIVE Str(_)
\* str(n) of a natural number
Str(n) == IF n < 10 THEN <<Digit(n)>> ELSE Str(n \div 10) \o <<Digit(n % 10)>>

\* A plausible slip: the zeros are put in front of everything, sign included.
ZfillPrepend(s, width) ==
    IF Len(s) >= width THEN s ELSE Zeros(width - Len(s)) \o s

\* str.zfill(width): zeros on the left up to width, after a leading sign.
Zfill(s, width) ==
    IF Len(s) >= width THEN s
    ELSE IF Len(s) > 0 /\ s[1] \in {"+", "-"}
         THEN <<s[1]>> \o Zeros(width - Len(s)) \o Tail(s)
         ELSE Zeros(width - Len(s)) \o s

IsDigits(s) == \A i \in 1..Len(s) : s[i] \in {"0","1","2","3","4","5","6","7","8","9"}

RECURSIVE StripZeros(_)
\* the text of int(s) for a digit string s
StripZeros(s) ==
    IF Len(s) > 1 /\ s[1] = "0" THEN StripZeros(Tail(s)) ELSE s

\* ------------------------------------------------------------ files
\* The sample roster written by the startup event: the 39 employee numbers,
\* here without their leading "000"; the names play no part in validation.
SampleNumbers ==
    << 71215, 70782, 71156, 70098, 71182, 70039, 70961, 70671, 70459, 70081,
       70291, 70783, 70314, 70036, 70618, 71216, 71157, 70598, 70292, 70129,
       70725, 70126, 71168, 70798, 71214, 71239, 70785, 70636, 70792, 71577,
       70944, 70128, 71201, 70730, 71131, 71709, 71002, 70962, 71909 >>

sample_data ==
    [i \in 1..Len(SampleNumbers) |->
        [EmployeeNumber |-> <<"0","0","0">> \o Str(SampleNumbers[i]),
         EmployeeName |-> "employee"]]

\* A roster file put in place before the first start, with one number saved
\* without its leading zeros.
PlacedRoster ==
    << [EmployeeNumber |-> Str(70098), EmployeeName |-> "Aye Aye Tun"],
       [EmployeeNumber |-> <<"0","0","0">> \o Str(71215), EmployeeName |-> "Pyae Phyo Latt"] >>

\* A file is [exists, rows]: rows are its data rows, the header line implied.
Missing == [exists |-> FALSE, rows |-> <<>>]
File(rows) == [exists |-> TRUE, rows |-> rows]

\* A plausible slip: read_csv without dtype={'EmployeeNumber': str}; a column
\* of digit strings is then read as integers and loses its leading zeros.
ReadCsvInferred(file) ==
    IF \A i \in 1..Len(file.rows) : IsDigits(file.rows[i].EmployeeNumber)
    THEN [i \in 1..Len(file.rows) |->
            [file.rows[i] EXCEPT !.EmployeeNumber = StripZeros(file.rows[i].EmployeeNumber)]]
    ELSE file.rows

\* pd.read_csv(path, dtype={'EmployeeNumber': str}): the data rows as a
\* frame, the EmployeeNumber cells kept as text.
ReadCsv(file) == file.rows

\* A plausible slip: the frame is written without its last row.
ToCsvDropLast(df) == File(IF Len(df) = 0 THEN df ELSE SubSeq(df, 1, Len(df) - 1))

\* df.to_csv(path, index=False): the whole file is replaced by the frame.
ToCsv(df) == File(df)

\* A plausible slip: the new row is put first.
PdConcatFirst(df, row) == <<row>> \o df

\* pd.concat([existing_df, new_row_df], ignore_index=True)
PdConcat(df, row) == Append(df, row)

\* ----------------------------------------------------------- roster
\* except Exception (load_employees): whatever was raised, the 404 of the
\* missing file included, leaves as a 500.
LoadEmployeesRaise(status) == 500

\* load_employees(): the roster file's rows, each number padded to 8.
LoadEmployees(file) ==
    IF ~file.exists
    THEN [status |-> LoadEmployeesRaise(404), employees |-> <<>>]
    ELSE [status |-> 200,
          employees |->
             [i \in 1..Len(ReadCsv(file)) |->
                [EmployeeNumber |-> Zfill(ReadCsv(file)[i].EmployeeNumber, EmployeeNumberWidth),
                 EmployeeName |-> ReadCsv(file)[i].EmployeeName]]]

\* employee_numbers = [emp.EmployeeNumber for emp in employees]
EmployeeNumbers(employees) == {employees[i].EmployeeNumber : i \in 1..Len(employees)}

\* A plausible slip: the membership test is lost and every number passes.
InRosterAlways(formatted_emp_num, employee_numbers) == TRUE

\* formatted_emp_num in employee_numbers
InRoster(formatted_emp_num, employee_numbers) == formatted_emp_num \in employee_numbers

\* ---------------------------------------------------------- requests
\* The submissions clients send: a number without its leading zeros, the same
\* number padded, a second employee, a number of nobody, a signed number.
Surveys ==
    { [employeeNumber |-> Str(70098), employeeName |-> "Aye Aye Tun"],
      [employeeNumber |-> <<"0","0","0">> \o Str(70098), employeeName |-> "Aye Aye Tun"],
      [employeeNumber |-> <<"0","0","0">> \o Str(71215), employeeName |-> "Pyae Phyo Latt"],
      [employeeNumber |-> Str(99), employeeName |-> "Nobody"],
      [employeeNumber |-> <<"-">> \o Str(70098), employeeName |-> "Aye Aye Tun"] }

NoSurvey == [employeeNumber |-> <<>>, employeeName |-> ""]
NoRow == [EmployeeNumber |-> <<>>, EmployeeName |-> ""]
NoResponse == [endpoint |-> "", status |-> 0, body |-> <<>>]

SubmitStages == {"submit_survey", "validated", "read", "written"}
InFlight == {w \in Workers : pc[w] \in SubmitStages}
AllIdle == \A w \in Workers : pc[w] = "idle"

\* ----------------------------------------------------------- startup
\* initialize_survey_csv(): a header-only table, if there is no file.
initialize_survey_csv(file) == IF ~file.exists THEN ToCsv(<<>>) ELSE file

\* startup_event(): the survey table, then the sample roster if none is there.
Startup ==
    /\ ~started
    /\ started' = TRUE
    /\ surveyCsv' = initialize_survey_csv(surveyCsv)
    /\ employeesCsv' = IF ~employeesCsv.exists THEN File(sample_data) ELSE employeesCsv
    /\ UNCHANGED <<pc, survey, survey_data, file_exists, existing_df, response, accepted>>
    /\ UNCHANGED <<normVars, statVars>>

\* ----------------------------------------------------- submit_survey
\* @app.post("/submit-survey"): a worker takes a submission.  MaxAccepted
\* bounds the submissions taken in a run.
PostSubmitSurvey(w, s) ==
    /\ started
    /\ pc[w] = "idle"
    /\ Len(accepted) + Cardinality(InFlight) < MaxAccepted
    /\ pc' = [pc EXCEPT ![w] = "submit_survey"]
    /\ survey' = [survey EXCEPT ![w] = s]
    /\ UNCHANGED <<started, employeesCsv, surveyCsv, survey_data, file_exists,
                   existing_df, response, accepted>>
    /\ UNCHANGED <<normVars, statVars>>

\* except Exception (submit_survey): whatever was raised inside the try, the
\* handler's own HTTPException(400) included, leaves as a 500.
SubmitSurveyRaise(status) == 500

\* formatted_emp_num = str(survey.employeeNumber).zfill(8)
FormattedEmpNum(s) == Zfill(s.employeeNumber, EmployeeNumberWidth)

\* the survey_data row
SurveyData(s) ==
    [EmployeeNumber |-> FormattedEmpNum(s), EmployeeName |-> s.employeeName]

\* The answer of a request that ended in an HTTPException.
Failure(endpoint, status) == [endpoint |-> endpoint, status |-> status, body |-> <<>>]

\* submit_survey, the roster check: the roster is loaded and the padded number
\* looked up; a miss raises, a hit builds the row.
SubmitValidate(w) ==
    /\ pc[w] = "submit_survey"
    /\ LET loaded == LoadEmployees(employeesCsv)
           valid == /\ loaded.status = 200
                    /\ InRoster(FormattedEmpNum(survey[w]), EmployeeNumbers(loaded.employees))
       IN IF valid
          THEN /\ pc' = [pc EXCEPT ![w] = "validated"]
               /\ survey_data' = [survey_data EXCEPT ![w] = SurveyData(survey[w])]
               /\ UNCHANGED <<survey, response>>
          ELSE /\ pc' = [pc EXCEPT ![w] = "idle"]
               /\ response' = Failure("submit_survey",
                                 SubmitSurveyRaise(IF loaded.status = 200 THEN 400
                                                   ELSE loaded.status))
               /\ survey' = [survey EXCEPT ![w] = NoSurvey]
               /\ UNCHANGED survey_data
    /\ UNCHANGED <<started, employeesCsv, surveyCsv, file_exists, existing_df, accepted>>
    /\ UNCHANGED <<normVars, statVars>>

\* submit_survey, the read: whether the table exists, and all of it if so.
SubmitRead(w) ==
    /\ pc[w] = "validated"
    /\ pc' = [pc EXCEPT ![w] = "read"]
    /\ file_exists' = [file_exists EXCEPT ![w] = surveyCsv.exists]
    /\ existing_df' = [existing_df EXCEPT ![w] =
                          IF surveyCsv.exists THEN ReadCsv(surveyCsv) ELSE <<>>]
    /\ UNCHANGED <<started, employeesCsv, surveyCsv, survey, survey_data, response, accepted>>
    /\ UNCHANGED <<normVars, statVars>>

\* A variant that appends to the table as it is at the write (as a lock held
\* from read to write would have it), not to what was read.
UpdatedDfReread(exists, df, row) == PdConcat(ReadCsv(surveyCsv), row)

\* updated_df: what was read plus the new row, or the new row alone.
UpdatedDf(exists, df, row) == IF exists THEN PdConcat(df, row) ELSE <<row>>

\* submit_survey, the write: the file is replaced by updated_df.
SubmitWrite(w) ==
    /\ pc[w] = "read"
    /\ pc' = [pc EXCEPT ![w] = "written"]
    /\ surveyCsv' = ToCsv(UpdatedDf(file_exists[w], existing_df[w], survey_data[w]))
    /\ UNCHANGED <<started, employeesCsv, survey, survey_data, file_exists,
                   existing_df, response, accepted>>
    /\ UNCHANGED <<normVars, statVars>>

\* submit_survey, the return: the success message with the stored row.
SubmitReturn(w) ==
    /\ pc[w] = "written"
    /\ pc' = [pc EXCEPT ![w] = "idle"]
    /\ response' = [endpoint |-> "submit_survey", status |-> 200,
                    body |-> <<survey_data[w]>>]
    /\ accepted' = Append(accepted, survey_data[w])
    /\ survey' = [survey EXCEPT ![w] = NoSurvey]
    /\ survey_data' = [survey_data EXCEPT ![w] = NoRow]
    /\ file_exists' = [file_exists EXCEPT ![w] = FALSE]
    /\ existing_df' = [existing_df EXCEPT ![w] = <<>>]
    /\ UNCHANGED <<started, employeesCsv, surveyCsv>>
    /\ UNCHANGED <<normVars, statVars>>

\* ------------------------------------------------------ read requests
\* @app.get(...): a worker takes a read request for one of the endpoints.
GetRequest(w, endpoint) ==
    /\ started
    /\ pc[w] = "idle"
    /\ pc' = [pc EXCEPT ![w] = endpoint]
    /\ UNCHANGED <<started, employeesCsv, surveyCsv, survey, survey_data, file_exists,
                   existing_df, response, accepted>>
    /\ UNCHANGED <<normVars, statVars>>

ReadEndpoints ==
    {"get_survey_responses", "download_survey_responses",
     "download_survey_responses_excel"}

\* get_survey_responses(): every row of the table, none if there is no file.
GetSurveyResponses(w) ==
    /\ pc[w] = "get_survey_responses"
    /\ pc' = [pc EXCEPT ![w] = "idle"]
    /\ response' = [endpoint |-> "get_survey_responses", status |-> 200,
                    body |-> IF surveyCsv.exists THEN ReadCsv(surveyCsv) ELSE <<>>]
    /\ UNCHANGED <<started, employeesCsv, surveyCsv, survey, survey_data, file_exists,
                   existing_df, accepted>>
    /\ UNCHANGED <<normVars, statVars>>

\* except FileNotFoundError / except Exception (both download handlers): a
\* FileNotFoundError leaves as a 404; anything else, the handler's own
\* HTTPException(404) included, leaves as a 500.
DownloadRaise(status) == 500

\* The outcome of a download handler on the table: the rows to render, or
\* the status it fails with.
Download(endpoint, file) ==
    IF ~file.exists THEN Failure(endpoint, DownloadRaise(404))
    ELSE IF Len(ReadCsv(file)) = 0 THEN Failure(endpoint, DownloadRaise(404))
    ELSE [endpoint |-> endpoint, status |-> 200, body |-> ReadCsv(file)]

\* download_survey_responses(): the table as a CSV attachment.
DownloadSurveyResponses(w) ==
    /\ pc[w] = "download_survey_responses"
    /\ pc' = [pc EXCEPT ![w] = "idle"]
    /\ response' = Download("download_survey_responses", surveyCsv)
    /\ UNCHANGED <<started, employeesCsv, surveyCsv, survey, survey_data, file_exists,
                   existing_df, accepted>>
    /\ UNCHANGED <<normVars, statVars>>

\* download_survey_responses_excel(): the table as a spreadsheet attachment.
DownloadSurveyResponsesExcel(w) ==
    /\ pc[w] = "download_survey_responses_excel"
    /\ pc' = [pc EXCEPT ![w] = "idle"]
    /\ response' = Download("download_survey_responses_excel", surveyCsv)
    /\ UNCHANGED <<started, employeesCsv, surveyCsv, survey, survey_data, file_exists,
                   existing_df, accepted>>
    /\ UNCHANGED <<normVars, statVars>>

\* ------------------------------------------------- normalization run
\* The two places that pad an employee number, load_employees for a cell of
\* the roster file and submit_survey for the submitted number, applied to one
\* cell and one submitted number.
IdChars == {"0", "7", "-"}
IdStrings == UNION {[1..n -> IdChars] : n \in 0..MaxIdLen}
RosterCells ==
    { <<"7">>, <<"0", "7">>, Zeros(7) \o <<"7">>, Zeros(8) \o <<"7">>,
      <<"-", "7">>, <<"7", "0">> }

NoNorm == [emp_num |-> <<>>, formatted_emp_num |-> <<>>, again |-> <<>>, valid |-> FALSE]

\* load_employees() on a roster file of the one cell
NormLoad ==
    /\ norm_pc = "input"
    /\ norm_pc' = "loaded"
    /\ norm_out' = [norm_out EXCEPT !.emp_num =
          LoadEmployees(File(<<[EmployeeNumber |-> cell_in, EmployeeName |-> "employee"]>>))
             .employees[1].EmployeeNumber]
    /\ UNCHANGED <<emp_in, cell_in>>
    /\ UNCHANGED <<serverVars, statVars>>

\* submit_survey's formatting of the submitted number (once, and again on
\* its own result) and its lookup among the loaded numbers
NormCheck ==
    /\ norm_pc = "loaded"
    /\ norm_pc' = "checked"
    /\ LET s == [employeeNumber |-> emp_in, employeeName |-> "employee"]
           f == FormattedEmpNum(s)
       IN norm_out' = [norm_out EXCEPT
              !.formatted_emp_num = f,
              !.again = FormattedEmpNum([s EXCEPT !.employeeNumber = f]),
              !.valid = InRoster(f, {norm_out.emp_num})]
    /\ UNCHANGED <<emp_in, cell_in>>
    /\ UNCHANGED <<serverVars, statVars>>

\* ---------------------------------------------------- statistics run
\* A height cell pair of the table; valid = FALSE is an empty (NaN) cell.
Heights ==
    { [valid |-> TRUE, feet |-> 5, inches |-> 11],
      [valid |-> TRUE, feet |-> 6, inches |-> 0],
      [valid |-> TRUE, feet |-> 0, inches |-> 0],
      [valid |-> FALSE, feet |-> 0, inches |-> 0] }

\* The tables of the statistics run: k rows of one height, then rows of another.
StatTable(n, k, a, b) == [i \in 1..n |-> IF i <= k THEN a ELSE b]

RECURSIVE SumSeq(_)
SumSeq(s) == IF Len(s) = 0 THEN 0 ELSE s[1] + SumSeq(Tail(s))

\* round(a / b) to the nearest integer, ties to even, for b > 0
RoundDiv(a, b) ==
    LET q == a \div b
        r == a % b
    IN IF 2 * r < b THEN q
       ELSE IF 2 * r > b THEN q + 1
       ELSE IF q % 2 = 0 THEN q ELSE q + 1

\* total_height_inches = df['Height - Feet'] * 12 + df['Height - Inches'],
\* the rows with an empty cell left out (as mean() leaves them out)
TotalHeightInches(df) ==
    LET ok == SelectSeq(df, LAMBDA h : h.valid)
    IN [i \in 1..Len(ok) |-> ok[i].feet * 12 + ok[i].inches]

NoStats == [total_responses |-> 0, averages |-> FALSE,
            height_feet |-> 0, height_inches_tenths |-> 0]

\* A variant that takes feet and inches from the unrounded mean and rounds
\* the inches last.
HeightStatsUnrounded(df) ==
    LET total == TotalHeightInches(df)
        n == Len(total)
        sum == SumSeq(total)
    IN IF n = 0 \/ sum <= 0
       THEN [height_feet |-> 0, height_inches_tenths |-> 0]
       ELSE [height_feet |-> sum \div (12 * n),
             height_inches_tenths |-> RoundDiv(10 * (sum % (12 * n)), n)]

\* The average height of get_survey_statistics, in feet and tenths of an
\* inch: the mean of the totals is rounded to one decimal first, then split
\* by // 12 and % 12; 0 and 0 when the rounded mean is not above 0 or every
\* total is NaN.  Rounding is that of the exact quotient, ties to even.
HeightStats(df) ==
    LET total == TotalHeightInches(df)
        n == Len(total)
        avg_height_total_tenths == IF n = 0 THEN 0 ELSE RoundDiv(10 * SumSeq(total), n)
    IN IF avg_height_total_tenths > 0
       THEN [height_feet |-> avg_height_total_tenths \div 120,
             height_inches_tenths |-> avg_height_total_tenths % 120]
       ELSE [height_feet |-> 0, height_inches_tenths |-> 0]

\* get_survey_statistics(), the count and the average height
GetSurveyStatistics ==
    /\ stats_pc = "input"
    /\ stats_pc' = "done"
    /\ stats_out' =
          IF Len(df_in) = 0
          THEN NoStats
          ELSE [total_responses |-> Len(df_in), averages |-> TRUE,
                height_feet |-> HeightStats(df_in).height_feet,
                height_inches_tenths |-> HeightStats(df_in).height_inches_tenths]
    /\ UNCHANGED df_in
    /\ UNCHANGED <<serverVars, normVars>>

\* ---------------------------------------------------- specifications
NormIdle ==
    /\ emp_in = <<>>
    /\ cell_in = <<>>
    /\ norm_pc = "off"
    /\ norm_out = NoNorm

StatIdle ==
    /\ df_in = <<>>
    /\ stats_pc = "off"
    /\ stats_out = NoStats

\* The data directory before the first start: no files, or a roster put there.
Init ==
    /\ started = FALSE
    /\ employeesCsv \in {Missing, File(PlacedRoster)}
    /\ surveyCsv = Missing
    /\ pc = [w \in Workers |-> "idle"]
    /\ survey = [w \in Workers |-> NoSurvey]
    /\ survey_data = [w \in Workers |-> NoRow]
    /\ file_exists = [w \in Workers |-> FALSE]
    /\ existing_df = [w \in Workers |-> <<>>]
    /\ response = NoResponse
    /\ accepted = <<>>
    /\ NormIdle
    /\ StatIdle

Handle(w) ==
    \/ SubmitValidate(w)
    \/ SubmitRead(w)
    \/ SubmitWrite(w)
    \/ SubmitReturn(w)
    \/ GetSurveyResponses(w)
    \/ DownloadSurveyResponses(w)
    \/ DownloadSurveyResponsesExcel(w)

\* Several server processes over one data directory.
Next ==
    \/ Startup
    \/ \E w \in Workers : \E s \in Surveys : PostSubmitSurvey(w, s)
    \/ \E w \in Workers : \E e \in ReadEndpoints : GetRequest(w, e)
    \/ \E w \in Workers : Handle(w)

Spec == Init /\ [][Next]_vars

\* One server process (uvicorn.run(app)): a handler runs to its end before
\* the next request is taken.
SoloNext ==
    \/ Startup
    \/ \E w \in Workers : \E s \in Surveys : AllIdle /\ PostSubmitSurvey(w, s)
    \/ \E w \in Workers : \E e \in ReadEndpoints : AllIdle /\ GetRequest(w, e)
    \/ \E w \in Workers : Handle(w)

SpecSolo == Init /\ [][SoloNext]_vars

ServerIdle ==
    /\ started = FALSE
    /\ employeesCsv = Missing
    /\ surveyCsv = Missing
    /\ pc = [w \in Workers |-> "idle"]
    /\ survey = [w \in Workers |-> NoSurvey]
    /\ survey_data = [w \in Workers |-> NoRow]
    /\ file_exists = [w \in Workers |-> FALSE]
    /\ existing_df = [w \in Workers |-> <<>>]
    /\ response = NoResponse
    /\ accepted = <<>>

\* The normalization run on every submitted number up to MaxIdLen characters
\* and every roster cell of RosterCells.
NormInit ==
    /\ ServerIdle
    /\ StatIdle
    /\ emp_in \in IdStrings
    /\ cell_in \in RosterCells
    /\ norm_pc = "input"
    /\ norm_out = NoNorm

NormNext == NormLoad \/ NormCheck

SpecNorm == NormInit /\ [][NormNext]_vars

\* The statistics run on every table of up to MaxStatRows rows of two heights.
StatInit ==
    /\ ServerIdle
    /\ NormIdle
    /\ \E n \in 0..MaxStatRows : \E k \in 0..n : \E a \in Heights : \E b \in Heights :
          df_in = StatTable(n, k, a, b)
    /\ stats_pc = "input"
    /\ stats_out = NoStats

StatNext == GetSurveyStatistics

SpecStats == StatInit /\ [][StatNext]_vars

\* ------------------------------------------------------------ claims
IsPrefix(a, b) == Len(a) <= Len(b) /\ SubSeq(b, 1, Len(a)) = a
RowsOf(seq) == {seq[i] : i \in 1..Len(seq)}
Roster == EmployeeNumbers(LoadEmployees(employeesCsv).employees)
NotInRoster(w) == Zfill(survey[w].employeeNumber, 8) \notin Roster
SubmitEnds(w) == pc[w] \in SubmitStages /\ pc'[w] = "idle"
Writes(w) == pc[w] = "read" /\ pc'[w] = "written"
DownloadEnds(w) ==
    /\ pc[w] \in {"download_survey_responses", "download_survey_responses_excel"}
    /\ pc'[w] = "idle"

\* C1: a submission whose zero-padded employee number is not in the roster
\* ends in a failure answer, in the very step that checks it, and that step
\* leaves the survey table as it was.
C1_InvalidRejectedNoAppend ==
    [][\A w \in Workers :
         (pc[w] = "submit_survey" /\ pc'[w] # "submit_survey" /\ NotInRoster(w))
         => /\ pc'[w] = "idle"
            /\ response'.endpoint = "submit_survey"
            /\ response'.status >= 400
            /\ surveyCsv' = surveyCsv]_vars

\* C1 witness: a submission was refused while the table already held a row.
C1_Witness ==
    /\ response.endpoint = "submit_survey"
    /\ response.status >= 400
    /\ Len(surveyCsv.rows) >= 1

\* C2 (as claimed): a submission whose zero-padded employee number is not in
\* the roster is answered with status 400.
C2_InvalidIs400 ==
    [][\A w \in Workers :
         (pc[w] = "submit_survey" /\ pc'[w] = "idle" /\ NotInRoster(w))
         => response'.status = 400]_vars

\* C3: with one request running at a time, a submission that passed the
\* roster check reads the table as it is, and its write leaves the table as
\* those rows, in place, plus one last row whose EmployeeNumber is the
\* submitted number zero-padded to 8.
C3_ValidAppendsOneRow ==
    \A w \in Workers :
        /\ pc[w] = "read" => existing_df[w] = surveyCsv.rows
        /\ pc[w] = "written" =>
              /\ Len(surveyCsv.rows) = Len(existing_df[w]) + 1
              /\ SubSeq(surveyCsv.rows, 1, Len(existing_df[w])) = existing_df[w]
              /\ surveyCsv.rows[Len(surveyCsv.rows)].EmployeeNumber
                    = Zfill(survey[w].employeeNumber, 8)

\* C3 witness: a number sent without its leading zeros was written behind a
\* row that was already there.
C3_Witness ==
    \E w \in Workers :
        /\ pc[w] = "written"
        /\ Len(survey[w].employeeNumber) < 8
        /\ Len(existing_df[w]) >= 1

C5_AppendOnlyAlways ==
    [][IsPrefix(surveyCsv.rows, surveyCsv'.rows)]_vars

\* C5 (amended): the table before a step is a prefix of the table after it
\* in every step but the write of a request whose snapshot is stale, that is,
\* differs from what the table holds at the write.
C5_AppendOnlyUnlessStale ==
    [][(\A w \in Workers : Writes(w) => existing_df[w] = ReadCsv(surveyCsv))
         => IsPrefix(surveyCsv.rows, surveyCsv'.rows)]_vars

\* C5 witness: a request wrote behind an existing row while another
\* submission was in flight.
C5_Witness ==
    \E w \in Workers :
        /\ pc[w] = "written"
        /\ Len(existing_df[w]) >= 1
        /\ surveyCsv.rows = Append(existing_df[w], survey_data[w])
        /\ \E v \in Workers \ {w} : pc[v] \in SubmitStages

\* C6 (as claimed): a download request that finds the table missing or with
\* no rows is answered with status 404.
C6_EmptyDownloadIs404 ==
    [][\A w \in Workers :
         (DownloadEnds(w) /\ (~surveyCsv.exists \/ Len(surveyCsv.rows) = 0))
         => response'.status = 404]_vars

C9_LastWriterWins ==
    [][\A w \in Workers :
         Writes(w) => surveyCsv'.rows = Append(existing_df[w], survey_data[w])]_vars

\* C9 witness: two different submissions were answered with success and the
\* table holds one row.
C9_Witness ==
    /\ AllIdle
    /\ Len(accepted) = 2
    /\ accepted[1] # accepted[2]
    /\ Len(surveyCsv.rows) = 1

LeadingZeros(s) == Zeros(8 - Len(s)) \o s
SignLed(s) == Len(s) > 0 /\ s[1] \in {"+", "-"}

ValidHeights(df) ==
    \A i \in 1..Len(df) : df[i].valid /\ df[i].feet >= 0 /\ df[i].inches \in 0..11
StatSum == SumSeq(TotalHeightInches(df_in))
StatCount == Len(TotalHeightInches(df_in))

\* C10 (as claimed): on a non-empty table of valid heights the feet reported
\* are floor(mean / 12) and the inches are (mean mod 12) rounded to one
\* decimal (within 0.05 of it), mean being the mean of feet*12+inches.
C10_SplitOfTheMean ==
    (stats_pc = "done" /\ Len(df_in) > 0 /\ ValidHeights(df_in))
    => /\ stats_out.height_feet = StatSum \div (12 * StatCount)
       /\ 2 * (stats_out.height_inches_tenths * StatCount - 10 * (StatSum % (12 * StatCount)))
             \in (0 - StatCount)..StatCount

\* C10 (amended): on a non-empty table the feet and inches reported split the
\* mean rounded to one decimal: the inches are at least 0 and below 12, the
\* feet are not negative, and feet*12+inches is within 0.05 of the mean of
\* feet*12+inches over the rows that have a height; both are 0 when no row
\* has one.
C10_SplitOfTheRoundedMean ==
    (stats_pc = "done" /\ Len(df_in) > 0)
    => /\ stats_out.height_feet >= 0
       /\ stats_out.height_inches_tenths \in 0..119
       /\ StatCount = 0 =>
             stats_out.height_feet = 0 /\ stats_out.height_inches_tenths = 0
       /\ StatCount > 0 =>
             2 * ((120 * stats_out.height_feet + stats_out.height_inches_tenths) * StatCount
                     - 10 * StatSum)
                \in (0 - StatCount)..StatCount

\* C10 witness: twenty rows of 6'0" and one of 5'11", reported as 6 feet 0.0.
C10_Witness ==
    /\ stats_pc = "done"
    /\ StatCount = 21
    /\ StatSum = 20 * 72 + 71
    /\ stats_out.height_feet = 6
    /\ stats_out.height_inches_tenths = 0

====
